---------------------------- MODULE Spec2Model ----------------------------
(***************************************************************************)
(* Library management: the circulation core of app.py.                     *)
(*                                                                         *)
(* The state is one LibrarySystem instance (its DataManager's in-memory    *)
(* document, the JSON file behind it, the two in-memory id counters), the  *)
(* wall clock that datetime.now() reads, and the value returned by the     *)
(* last service call.  Every service call is one action: the whole         *)
(* handler, all its DataManager writes and saves included.                 *)
(***************************************************************************)
EXTENDS Integers, Sequences, FiniteSets, TLC

VARIABLES
    data,            \* DataManager.data: the in-memory store document
    file,            \* the JSON file: <<>> when missing, <<document>> otherwise
    next_book_id,    \* LibrarySystem._next_book_id
    next_member_id,  \* LibrarySystem._next_member_id
    clock,           \* the wall clock read by datetime.now()
    ret,             \* what the last call returned
    test_book,       \* a Book object on its own (TestBook), <<>> when none
    test_member,     \* a Member object on its own (TestMember), <<>> when none
    pc,              \* the borrow_book call in progress, <<>> when none
    other            \* a second LibrarySystem on the same file, <<>> when none

vars == <<data, file, next_book_id, next_member_id, clock, ret,
          test_book, test_member, pc, other>>

\* What the calls of the one service instance leave alone.
aside == <<test_book, test_member, pc, other>>

(***************************************************************************)
(* Bounds of the model.                                                    *)
(***************************************************************************)
MaxBookId == 4      \* add_book is called while the next book id is <= this
MaxMemberId == 2    \* add_member is called while the next member id is <= this
MaxLog == 4         \* calls that would log are made while the log is shorter
MaxClock == 0       \* the last instant the clock reaches in a session

(***************************************************************************)
(* Program constants.                                                      *)
(***************************************************************************)
MaxBooksPerMember == 3    \* Member._max_books
LoanDays == 14            \* timedelta(days=14)

Titles == {"T"}
Authors == {"A"}
Isbns == {"ISBN1"}
Categories == {"General"}
Names == {"N1"}
Emails == {"e@x"}

\* The ids callers pass to borrow_book and return_book: ids of stored records
\* and ids of records that were never added.  They are ints, as the ids the
\* service hands out and the tests pass back (the routes pass the decimal
\* text of the form, which str() maps to the same keys).
MemberIdArgs == 1..MaxMemberId
BookIdArgs == 1..MaxBookId

(***************************************************************************)
(* Python values.                                                          *)
(***************************************************************************)
\* None is the empty tuple and a present value v is <<v>>, for the nullable
\* borrowed_by field, for dict.get() and for the file that may not exist.
None == <<>>
Some(v) == <<v>>

\* str(n) of a positive int: the dictionary keys of the document are decimal
\* strings, ids are ints.
DigitStr == <<"1", "2", "3", "4", "5", "6", "7", "8", "9">>
ToStr(n) == DigitStr[n]
\* int(k) of a decimal string.
ToInt(k) == CHOOSE n \in 1..Len(DigitStr) : DigitStr[n] = k

\* d[k] = v on a dict.
Put(d, k, v) == [x \in (DOMAIN d) \cup {k} |-> IF x = k THEN v ELSE d[x]]
\* d.get(k)
Get(d, k) == IF k \in DOMAIN d THEN Some(d[k]) ELSE None

\* max() of a non-empty set of ints.
Max(S) == CHOOSE x \in S : \A y \in S : y <= x

\* datetime.isoformat(): an instant is the number of clock ticks, a day is one
\* tick, and the ISO text of an instant is represented by the instant.
isoformat(t) == t

\* [b for b in seq if Keep(b)]
RECURSIVE SelectRecords(_, _)
SelectRecords(seq, book_id) ==
    IF seq = <<>> THEN <<>>
    ELSE IF Head(seq).book_id # book_id
         THEN <<Head(seq)>> \o SelectRecords(Tail(seq), book_id)
         ELSE SelectRecords(Tail(seq), book_id)

(***************************************************************************)
(* Person / Member.                                                        *)
(***************************************************************************)
\* Member.__init__ (and Person.__init__): now is the datetime.now() it reads.
Member(member_id, name, email, now) ==
    [person_id |-> member_id, name |-> name, email |-> email,
     created_at |-> now, borrowed_books |-> <<>>,
     max_books |-> MaxBooksPerMember]

\* Mutant: the limit test off by one.
can_borrow_OffByOne(member) == Len(member.borrowed_books) <= member.max_books

can_borrow(member) == Len(member.borrowed_books) < member.max_books

\* Mutant: the borrow record is inserted at the front of the list.
Member_borrow_book_Prepend(member, book_id, now1, now2) ==
    IF Len(member.borrowed_books) < member.max_books
    THEN [member EXCEPT !.borrowed_books =
              <<[book_id |-> book_id,
                 borrowed_date |-> now1,
                 due_date |-> now2 + LoanDays]>> \o @]
    ELSE member

\* Member.borrow_book: now1 and now2 are its two reads of the clock.
Member_borrow_book(member, book_id, now1, now2) ==
    IF can_borrow(member)
    THEN [member EXCEPT !.borrowed_books =
              Append(@, [book_id |-> book_id,
                         borrowed_date |-> isoformat(now1),
                         due_date |-> isoformat(now2 + LoanDays)])]
    ELSE member

\* What Member.borrow_book returns.
Member_borrow_book_returns(member, book_id) == can_borrow(member)

\* Mutant: only the first record for the book is removed.
Member_return_book_First(member, book_id) ==
    LET seq == member.borrowed_books
        hits == {i \in 1..Len(seq) : seq[i].book_id = book_id}
        first == CHOOSE i \in hits : \A j \in hits : i <= j
    IN  IF hits = {} THEN member
        ELSE [member EXCEPT !.borrowed_books =
                  SubSeq(seq, 1, first - 1) \o SubSeq(seq, first + 1, Len(seq))]

Member_return_book(member, book_id) ==
    [member EXCEPT !.borrowed_books = SelectRecords(@, book_id)]

get_info(person) ==
    [id |-> person.person_id, name |-> person.name, email |-> person.email,
     created_at |-> isoformat(person.created_at)]

Member_to_dict(member) ==
    [id |-> get_info(member).id, name |-> get_info(member).name,
     email |-> get_info(member).email,
     created_at |-> get_info(member).created_at,
     borrowed_books |-> member.borrowed_books,
     can_borrow_more |-> can_borrow(member)]

(***************************************************************************)
(* Book.                                                                   *)
(***************************************************************************)
Book(book_id, title, author, isbn, category, now) ==
    [book_id |-> book_id, title |-> title, author |-> author, isbn |-> isbn,
     category |-> category, is_available |-> TRUE, borrowed_by |-> None,
     added_date |-> now]

\* Mutant: the book is handed over whether it is available or not.
Book_borrow_Overwrite(book, member_id) ==
    [book EXCEPT !.is_available = FALSE, !.borrowed_by = Some(member_id)]

\* Book.borrow: the book after the call, and what the call returns.
Book_borrow(book, member_id) ==
    IF book.is_available
    THEN [book EXCEPT !.is_available = FALSE, !.borrowed_by = Some(member_id)]
    ELSE book

Book_borrow_returns(book, member_id) == book.is_available

\* Book.return_book
Book_return_book(book) ==
    [book EXCEPT !.is_available = TRUE, !.borrowed_by = None]

Book_to_dict(book) ==
    [id |-> book.book_id, title |-> book.title, author |-> book.author,
     isbn |-> book.isbn, category |-> book.category,
     is_available |-> book.is_available, borrowed_by |-> book.borrowed_by,
     added_date |-> isoformat(book.added_date)]

(***************************************************************************)
(* DataManager.  A data manager is [data, file]; every mutator returns the *)
(* data manager after its write and its _save_data().                      *)
(***************************************************************************)
EmptyDocument == [books |-> <<>>, members |-> <<>>, transactions |-> <<>>]

\* json.dump and json.load.  The file holds the JSON text of the document:
\* the keys and the strings of the document are themselves, and the values
\* that are no strings are their JSON tokens: an int is its decimal text,
\* None is null, True and False are true and false.  (The ISO dates are
\* strings, represented by their instants.)
json_int(n) == ToStr(n)
json_bool(b) == IF b THEN "true" ELSE "false"
json_optional_int(v) == IF v = None THEN "null" ELSE ToStr(v[1])

py_int(token) == ToInt(token)
\* Mutant: the truth value of the token's text: every non-empty text is true.
py_bool_Truthy(token) == token # ""

py_bool(token) == token = "true"
py_optional_int(token) == IF token = "null" THEN None ELSE Some(ToInt(token))

json_book(b) ==
    [b EXCEPT !.id = json_int(b.id),
              !.is_available = json_bool(b.is_available),
              !.borrowed_by = json_optional_int(b.borrowed_by)]

py_book(j) ==
    [j EXCEPT !.id = py_int(j.id),
              !.is_available = py_bool(j.is_available),
              !.borrowed_by = py_optional_int(j.borrowed_by)]

json_borrow_record(r) == [r EXCEPT !.book_id = json_int(r.book_id)]
py_borrow_record(j) == [j EXCEPT !.book_id = py_int(j.book_id)]

json_member(m) ==
    [m EXCEPT !.id = json_int(m.id),
              !.can_borrow_more = json_bool(m.can_borrow_more),
              !.borrowed_books =
                  [i \in 1..Len(m.borrowed_books) |->
                      json_borrow_record(m.borrowed_books[i])]]

py_member(j) ==
    [j EXCEPT !.id = py_int(j.id),
              !.can_borrow_more = py_bool(j.can_borrow_more),
              !.borrowed_books =
                  [i \in 1..Len(j.borrowed_books) |->
                      py_borrow_record(j.borrowed_books[i])]]

json_transaction(t) ==
    [t EXCEPT !.member_id = json_int(t.member_id),
              !.book_id = json_int(t.book_id)]

py_transaction(j) ==
    [j EXCEPT !.member_id = py_int(j.member_id),
              !.book_id = py_int(j.book_id)]

json_dump(doc) ==
    Some([books |-> [k \in DOMAIN doc.books |-> json_book(doc.books[k])],
          members |-> [k \in DOMAIN doc.members |-> json_member(doc.members[k])],
          transactions |-> [i \in 1..Len(doc.transactions) |->
                               json_transaction(doc.transactions[i])]])

json_load(f) ==
    [books |-> [k \in DOMAIN f[1].books |-> py_book(f[1].books[k])],
     members |-> [k \in DOMAIN f[1].members |-> py_member(f[1].members[k])],
     transactions |-> [i \in 1..Len(f[1].transactions) |->
                          py_transaction(f[1].transactions[i])]]

load_data(f) == IF f # None THEN json_load(f) ELSE EmptyDocument

save_data(dm) == [dm EXCEPT !.file = json_dump(dm.data)]

\* Mutant: the books the file holds and the instance does not are kept in
\* the file.
DM_add_book_Merge(dm, book) ==
    LET mem == [dm.data EXCEPT
                   !.books = Put(@, ToStr(book.book_id), Book_to_dict(book))]
        disk == load_data(dm.file)
        merged == [mem EXCEPT !.books =
                      [k \in (DOMAIN disk.books) \cup (DOMAIN mem.books) |->
                          IF k \in DOMAIN mem.books THEN mem.books[k]
                          ELSE disk.books[k]]]
    IN  [data |-> mem, file |-> json_dump(merged)]

DM_add_book(dm, book) ==
    save_data([dm EXCEPT !.data.books = Put(@, ToStr(book.book_id), Book_to_dict(book))])

DM_add_member(dm, member) ==
    save_data([dm EXCEPT !.data.members = Put(@, ToStr(member.person_id), Member_to_dict(member))])

get_book(dm, book_id) == Get(dm.data.books, ToStr(book_id))

get_member(dm, member_id) == Get(dm.data.members, ToStr(member_id))

\* Mutant: the book record is replaced in memory and the file is not written.
update_book_NoSave(dm, book_id, book_data) ==
    [dm EXCEPT !.data.books = Put(@, ToStr(book_id), book_data)]

update_book(dm, book_id, book_data) ==
    save_data([dm EXCEPT !.data.books = Put(@, ToStr(book_id), book_data)])

update_member(dm, member_id, member_data) ==
    save_data([dm EXCEPT !.data.members = Put(@, ToStr(member_id), member_data)])

\* Mutant: the log is extended in memory and the file is not written.
add_transaction_NoSave(dm, transaction) ==
    [dm EXCEPT !.data.transactions = Append(@, transaction)]

\* Mutant: the log is replaced by the new record instead of extended.
add_transaction_Replace(dm, transaction) ==
    [data |-> [dm.data EXCEPT !.transactions = <<transaction>>],
     file |-> json_dump([dm.data EXCEPT !.transactions = <<transaction>>])]

add_transaction(dm, transaction) ==
    save_data([dm EXCEPT !.data.transactions = Append(@, transaction)])

(***************************************************************************)
(* LibrarySystem.                                                          *)
(***************************************************************************)
NotFound == "Member or book not found"
Unavailable == "Book is not available"
LimitReached == "Member has reached borrowing limit"
Borrowed == "Book borrowed successfully"
Returned == "Book returned successfully"

\* Mutant: the next id is the largest id in use.
get_next_id_NoIncrement(doc, entity_type) ==
    LET existing_ids == {ToInt(k) : k \in DOMAIN doc[entity_type]}
    IN  IF existing_ids # {} THEN Max(existing_ids) ELSE 1

get_next_id(doc, entity_type) ==
    LET existing_ids == {ToInt(k) : k \in DOMAIN doc[entity_type]}
    IN  IF existing_ids # {} THEN Max(existing_ids) + 1 ELSE 1

DM == [data |-> data, file |-> file]

Transaction(type, member_id, book_id, now) ==
    [type |-> type, member_id |-> member_id, book_id |-> book_id,
     date |-> isoformat(now)]


\* The value a service call returns: add_book and add_member return the new
\* entity (its id is kept), borrow_book and return_book return (ok, msg).
Ret(op, ok, msg, id) == [op |-> op, ok |-> ok, msg |-> msg, id |-> id]

Init ==
    /\ file = None
    /\ data = load_data(None)
    /\ next_book_id = get_next_id(load_data(None), "books")
    /\ next_member_id = get_next_id(load_data(None), "members")
    /\ clock = 0
    /\ ret = Ret("init", TRUE, "", 0)
    /\ test_book = None
    /\ test_member = None
    /\ pc = None
    /\ other = None

\* LibrarySystem.add_book; now is the clock read of Book.__init__.
add_book(title, author, isbn, category, now) ==
    LET book == Book(next_book_id, title, author, isbn, category, now)
        dm1 == DM_add_book(DM, book)
    IN  /\ data' = dm1.data
        /\ file' = dm1.file
        /\ next_book_id' = next_book_id + 1
        /\ clock' = now
        /\ ret' = Ret("add_book", TRUE, "", book.book_id)
        /\ UNCHANGED next_member_id

\* LibrarySystem.add_member; now is the clock read of Person.__init__.
add_member(name, email, now) ==
    LET member == Member(next_member_id, name, email, now)
        dm1 == DM_add_member(DM, member)
    IN  /\ data' = dm1.data
        /\ file' = dm1.file
        /\ next_member_id' = next_member_id + 1
        /\ clock' = now
        /\ ret' = Ret("add_member", TRUE, "", member.person_id)
        /\ UNCHANGED next_book_id

\* The member entity borrow_book and return_book rebuild from the stored
\* dictionary: a new Member (created now) given the stored borrow list.
RebuildMember(member_data, now) ==
    [Member(member_data.id, member_data.name, member_data.email, now)
        EXCEPT !.borrowed_books = member_data.borrowed_books]

\* Mutant: the borrower is not recorded.
MarkBorrowed_NoBorrower(book_data, member_id) ==
    [book_data EXCEPT !.is_available = FALSE]

\* book_data['is_available'] = False; book_data['borrowed_by'] = member_id
MarkBorrowed(book_data, member_id) ==
    [book_data EXCEPT !.is_available = FALSE, !.borrowed_by = Some(member_id)]

\* Mutant: the book is left as it is.
MarkReturned_Unchanged(book_data) == book_data

\* book_data['is_available'] = True; book_data['borrowed_by'] = None
MarkReturned(book_data) ==
    [book_data EXCEPT !.is_available = TRUE, !.borrowed_by = None]

\* Mutant: the borrowing limit is tested before the availability.
BorrowOutcome_LimitFirst(dm, member_id, book_id) ==
    IF get_member(dm, member_id) = None \/ get_book(dm, book_id) = None
    THEN NotFound
    ELSE IF Len(get_member(dm, member_id)[1].borrowed_books) >= MaxBooksPerMember
    THEN LimitReached
    ELSE IF ~get_book(dm, book_id)[1].is_available
    THEN Unavailable
    ELSE Borrowed

\* Mutant: the borrowing limit is not tested.
BorrowOutcome_NoLimit(dm, member_id, book_id) ==
    IF get_member(dm, member_id) = None \/ get_book(dm, book_id) = None
    THEN NotFound
    ELSE IF ~get_book(dm, book_id)[1].is_available
    THEN Unavailable
    ELSE Borrowed

\* Mutant: the availability is tested before the member is looked up.
BorrowOutcome_BookFirst(dm, member_id, book_id) ==
    IF get_book(dm, book_id) # None /\ ~get_book(dm, book_id)[1].is_available
    THEN Unavailable
    ELSE IF get_member(dm, member_id) = None \/ get_book(dm, book_id) = None
    THEN NotFound
    ELSE IF Len(get_member(dm, member_id)[1].borrowed_books) >= MaxBooksPerMember
    THEN LimitReached
    ELSE Borrowed

\* The outcome of the checks of borrow_book, in the order the code makes them.
BorrowOutcome(dm, member_id, book_id) ==
    IF get_member(dm, member_id) = None \/ get_book(dm, book_id) = None
    THEN NotFound
    ELSE IF ~get_book(dm, book_id)[1].is_available
    THEN Unavailable
    ELSE IF ~can_borrow(RebuildMember(get_member(dm, member_id)[1], clock))
    THEN LimitReached
    ELSE Borrowed

\* The data manager after a borrow_book that passed its checks: the three
\* writes in the code's order.  t1..t4 are the reads of the clock: the
\* rebuilt member's created_at, the two reads of Member.borrow_book and the
\* transaction's date.
BorrowWrites(dm, member_id, book_id, t1, t2, t3, t4) ==
    LET book_data == MarkBorrowed(get_book(dm, book_id)[1], member_id)
        dm1 == update_book(dm, book_id, book_data)
        member == Member_borrow_book(
                      RebuildMember(get_member(dm, member_id)[1], t1),
                      book_id, t2, t3)
        dm2 == update_member(dm1, member_id, Member_to_dict(member))
    IN  add_transaction(dm2, Transaction("borrow", member_id, book_id, t4))

\* LibrarySystem.borrow_book
borrow_book(member_id, book_id, t1, t2, t3, t4) ==
    LET outcome == BorrowOutcome(DM, member_id, book_id)
        dm3 == BorrowWrites(DM, member_id, book_id, t1, t2, t3, t4)
    IN  /\ ret' = Ret("borrow_book", outcome = Borrowed, outcome, 0)
        /\ UNCHANGED <<next_book_id, next_member_id>>
        /\ IF outcome = Borrowed
           THEN /\ data' = dm3.data
                /\ file' = dm3.file
                /\ clock' = t4
           ELSE /\ UNCHANGED <<data, file>>
                /\ clock' = IF outcome = LimitReached THEN t1 ELSE clock

\* Mutant: only the member recorded as the borrower may return the book.
ReturnOutcome_HolderOnly(dm, member_id, book_id) ==
    IF get_member(dm, member_id) = None \/ get_book(dm, book_id) = None
    THEN NotFound
    ELSE IF get_book(dm, book_id)[1].borrowed_by # Some(member_id)
    THEN NotFound
    ELSE Returned

\* The outcome of the check of return_book.
ReturnOutcome(dm, member_id, book_id) ==
    IF get_member(dm, member_id) = None \/ get_book(dm, book_id) = None
    THEN NotFound
    ELSE Returned

\* The data manager after a return_book that found both records.  t1 is the
\* rebuilt member's created_at, t2 the transaction's date.
ReturnWrites(dm, member_id, book_id, t1, t2) ==
    LET book_data == MarkReturned(get_book(dm, book_id)[1])
        dm1 == update_book(dm, book_id, book_data)
        member == Member_return_book(
                      RebuildMember(get_member(dm, member_id)[1], t1), book_id)
        dm2 == update_member(dm1, member_id, Member_to_dict(member))
    IN  add_transaction(dm2, Transaction("return", member_id, book_id, t2))

\* LibrarySystem.return_book
return_book(member_id, book_id, t1, t2) ==
    LET outcome == ReturnOutcome(DM, member_id, book_id)
        dm3 == ReturnWrites(DM, member_id, book_id, t1, t2)
    IN  /\ ret' = Ret("return_book", outcome = Returned, outcome, 0)
        /\ UNCHANGED <<next_book_id, next_member_id>>
        /\ IF outcome = Returned
           THEN /\ data' = dm3.data
                /\ file' = dm3.file
                /\ clock' = t2
           ELSE UNCHANGED <<data, file, clock>>

\* A restart of the process: LibrarySystem.__init__ (and DataManager.__init__)
\* on the file as it is.  It is no service call: ret is left alone.
Restart ==
    /\ data' = load_data(file)
    /\ next_book_id' = get_next_id(load_data(file), "books")
    /\ next_member_id' = get_next_id(load_data(file), "members")
    /\ UNCHANGED <<file, clock, ret>>
    /\ UNCHANGED <<test_book, test_member, other>>
    /\ pc' = None

\* The instants a handler can read from the clock, starting at instant t.
From(t) == t..MaxClock

AddBook ==
    /\ next_book_id <= MaxBookId
    /\ \E title \in Titles, author \in Authors, isbn \in Isbns,
          category \in Categories, now \in From(clock) :
          add_book(title, author, isbn, category, now)
    /\ UNCHANGED aside

AddMember ==
    /\ next_member_id <= MaxMemberId
    /\ \E name \in Names, email \in Emails, now \in From(clock) :
          add_member(name, email, now)
    /\ UNCHANGED aside

\* The log has room for the record a successful call appends.
LogHasRoom == Len(data.transactions) < MaxLog

BorrowBook ==
    \E member_id \in MemberIdArgs, book_id \in BookIdArgs :
      \E t1 \in From(clock) : \E t2 \in From(t1) :
        \E t3 \in From(t2) : \E t4 \in From(t3) :
          /\ BorrowOutcome(DM, member_id, book_id) = Borrowed => LogHasRoom
          /\ borrow_book(member_id, book_id, t1, t2, t3, t4)
          /\ UNCHANGED aside

ReturnBook ==
    \E member_id \in MemberIdArgs, book_id \in BookIdArgs :
      \E t1 \in From(clock) : \E t2 \in From(t1) :
          /\ ReturnOutcome(DM, member_id, book_id) = Returned => LogHasRoom
          /\ return_book(member_id, book_id, t1, t2)
          /\ UNCHANGED aside

Next == AddBook \/ AddMember \/ BorrowBook \/ ReturnBook \/ Restart

Spec == Init /\ [][Next]_vars

(***************************************************************************)
(* The entities on their own: a Book and a Member object made by their     *)
(* constructors and driven through their methods, as the unit tests do.    *)
(***************************************************************************)
Service == <<data, file, next_book_id, next_member_id, pc, other>>

EntitiesInit ==
    /\ file = None
    /\ data = load_data(None)
    /\ next_book_id = get_next_id(load_data(None), "books")
    /\ next_member_id = get_next_id(load_data(None), "members")
    /\ clock = 0
    /\ ret = Ret("init", TRUE, "", 0)
    /\ pc = None
    /\ other = None
    /\ test_book \in {Book(book_id, title, author, isbn, category, 0) :
                        book_id \in BookIdArgs, title \in Titles,
                        author \in Authors, isbn \in Isbns,
                        category \in Categories}
    /\ test_member \in {Member(member_id, name, email, 0) :
                          member_id \in MemberIdArgs, name \in Names,
                          email \in Emails}

\* book.borrow(member_id)
BookBorrowCall(member_id) ==
    /\ test_book' = Book_borrow(test_book, member_id)
    /\ ret' = Ret("Book.borrow", Book_borrow_returns(test_book, member_id), "", 0)
    /\ UNCHANGED <<test_member, clock>>
    /\ UNCHANGED Service

\* book.return_book(); the method returns nothing.
BookReturnCall ==
    /\ test_book' = Book_return_book(test_book)
    /\ ret' = Ret("Book.return_book", TRUE, "", 0)
    /\ UNCHANGED <<test_member, clock>>
    /\ UNCHANGED Service

\* member.borrow_book(book_id); now1 and now2 are its reads of the clock.
MemberBorrowCall(book_id, now1, now2) ==
    /\ test_member' = Member_borrow_book(test_member, book_id, now1, now2)
    /\ ret' = Ret("Member.borrow_book",
                  Member_borrow_book_returns(test_member, book_id), "", 0)
    /\ clock' = IF can_borrow(test_member) THEN now2 ELSE clock
    /\ UNCHANGED test_book
    /\ UNCHANGED Service

\* member.return_book(book_id); the method returns nothing.
MemberReturnCall(book_id) ==
    /\ test_member' = Member_return_book(test_member, book_id)
    /\ ret' = Ret("Member.return_book", TRUE, "", 0)
    /\ UNCHANGED <<test_book, clock>>
    /\ UNCHANGED Service

BookBorrow == \E member_id \in MemberIdArgs : BookBorrowCall(member_id)

BookReturn == BookReturnCall

MemberBorrow ==
    \E book_id \in BookIdArgs :
      \E now1 \in From(clock) : \E now2 \in From(now1) :
        MemberBorrowCall(book_id, now1, now2)

MemberReturn == \E book_id \in BookIdArgs : MemberReturnCall(book_id)

EntitiesNext == BookBorrow \/ BookReturn \/ MemberBorrow \/ MemberReturn

SpecEntities == EntitiesInit /\ [][EntitiesNext]_vars

(***************************************************************************)
(* The service under a clock that advances: every read of datetime.now()   *)
(* gives the instant of the read before or a later one.  The store is      *)
(* kept small.                                                             *)
(***************************************************************************)
SmallMaxBookId == 2
SmallMaxMemberId == 2
SmallMaxLog == 2
MaxTick == 1

SmallBookIdArgs == 1..SmallMaxBookId
SmallMemberIdArgs == 1..SmallMaxMemberId

\* The instants a handler can read from the advancing clock, from instant t.
Ticks(t) == t..MaxTick

SmallLogHasRoom == Len(data.transactions) < SmallMaxLog

TickAddBook ==
    /\ next_book_id <= SmallMaxBookId
    /\ \E title \in Titles, author \in Authors, isbn \in Isbns,
          category \in Categories, now \in Ticks(clock) :
          add_book(title, author, isbn, category, now)
    /\ UNCHANGED aside

TickAddMember ==
    /\ next_member_id <= SmallMaxMemberId
    /\ \E name \in Names, email \in Emails, now \in Ticks(clock) :
          add_member(name, email, now)
    /\ UNCHANGED aside

TickBorrowBook ==
    \E member_id \in SmallMemberIdArgs, book_id \in SmallBookIdArgs :
      \E t1 \in Ticks(clock) : \E t2 \in Ticks(t1) :
        \E t3 \in Ticks(t2) : \E t4 \in Ticks(t3) :
          /\ BorrowOutcome(DM, member_id, book_id) = Borrowed => SmallLogHasRoom
          /\ borrow_book(member_id, book_id, t1, t2, t3, t4)
          /\ UNCHANGED aside

TickReturnBook ==
    \E member_id \in SmallMemberIdArgs, book_id \in SmallBookIdArgs :
      \E t1 \in Ticks(clock) : \E t2 \in Ticks(t1) :
          /\ ReturnOutcome(DM, member_id, book_id) = Returned => SmallLogHasRoom
          /\ return_book(member_id, book_id, t1, t2)
          /\ UNCHANGED aside

ClockNext ==
    TickAddBook \/ TickAddMember \/ TickBorrowBook \/ TickReturnBook \/ Restart

SpecClock == Init /\ [][ClockNext]_vars

(***************************************************************************)
(* The service with borrow_book taken one write at a time: the process can *)
(* stop between two writes (or between two calls), and Restart is its      *)
(* start on the file as it is.  pc is the call in progress: where it is,   *)
(* its arguments and its Member object.                                    *)
(***************************************************************************)
Pending(at, member_id, book_id, member) ==
    Some([at |-> at, member_id |-> member_id, book_id |-> book_id,
          member |-> member])

\* borrow_book up to the return of update_book: the checks, the Member
\* object (t1 is its created_at) and the first write.  A refused call is
\* the whole call.
StartBorrow(member_id, book_id, t1) ==
    /\ pc = None
    /\ IF BorrowOutcome(DM, member_id, book_id) = Borrowed
       THEN LET book_data == MarkBorrowed(get_book(DM, book_id)[1], member_id)
                dm1 == update_book(DM, book_id, book_data)
            IN  /\ SmallLogHasRoom
                /\ data' = dm1.data
                /\ file' = dm1.file
                /\ clock' = t1
                /\ pc' = Pending("book_saved", member_id, book_id,
                                 RebuildMember(get_member(DM, member_id)[1], t1))
                /\ UNCHANGED <<next_book_id, next_member_id, ret>>
                /\ UNCHANGED <<test_book, test_member, other>>
       ELSE /\ borrow_book(member_id, book_id, t1, t1, t1, t1)
            /\ UNCHANGED aside

\* borrow_book from there up to the return of update_member; t2 and t3 are
\* the two reads of the clock of Member.borrow_book.
SaveMember(t2, t3) ==
    /\ pc # None
    /\ pc[1].at = "book_saved"
    /\ LET member == Member_borrow_book(pc[1].member, pc[1].book_id, t2, t3)
           dm2 == update_member(DM, pc[1].member_id, Member_to_dict(member))
       IN  /\ data' = dm2.data
           /\ file' = dm2.file
           /\ clock' = t3
           /\ pc' = Pending("member_saved", pc[1].member_id, pc[1].book_id, member)
    /\ UNCHANGED <<next_book_id, next_member_id, ret>>
    /\ UNCHANGED <<test_book, test_member, other>>

\* borrow_book from there to its return; t4 is the date of the transaction.
SaveLog(t4) ==
    /\ pc # None
    /\ pc[1].at = "member_saved"
    /\ LET dm3 == add_transaction(DM, Transaction("borrow", pc[1].member_id,
                                                  pc[1].book_id, t4))
       IN  /\ data' = dm3.data
           /\ file' = dm3.file
           /\ clock' = t4
    /\ ret' = Ret("borrow_book", TRUE, Borrowed, 0)
    /\ pc' = None
    /\ UNCHANGED <<next_book_id, next_member_id>>
    /\ UNCHANGED <<test_book, test_member, other>>

BorrowCheckAndSaveBook ==
    \E member_id \in SmallMemberIdArgs, book_id \in SmallBookIdArgs :
      \E t1 \in From(clock) : StartBorrow(member_id, book_id, t1)

BorrowSaveMember == \E t2 \in From(clock) : \E t3 \in From(t2) : SaveMember(t2, t3)

BorrowSaveLog == \E t4 \in From(clock) : SaveLog(t4)

CrashAddBook ==
    /\ pc = None
    /\ next_book_id <= SmallMaxBookId
    /\ \E title \in Titles, author \in Authors, isbn \in Isbns,
          category \in Categories, now \in From(clock) :
          add_book(title, author, isbn, category, now)
    /\ UNCHANGED aside

CrashAddMember ==
    /\ pc = None
    /\ next_member_id <= SmallMaxMemberId
    /\ \E name \in Names, email \in Emails, now \in From(clock) :
          add_member(name, email, now)
    /\ UNCHANGED aside

CrashReturnBook ==
    /\ pc = None
    /\ \E member_id \in SmallMemberIdArgs, book_id \in SmallBookIdArgs :
        \E t1 \in From(clock) : \E t2 \in From(t1) :
          /\ ReturnOutcome(DM, member_id, book_id) = Returned => SmallLogHasRoom
          /\ return_book(member_id, book_id, t1, t2)
          /\ UNCHANGED aside

CrashNext ==
    \/ CrashAddBook
    \/ CrashAddMember
    \/ BorrowCheckAndSaveBook
    \/ BorrowSaveMember
    \/ BorrowSaveLog
    \/ CrashReturnBook
    \/ Restart

SpecCrash == Init /\ [][CrashNext]_vars

(***************************************************************************)
(* Two LibrarySystem objects on one file: the one of the variables data,   *)
(* next_book_id, next_member_id and ret, and a second one, the record      *)
(* other.  Both are constructed on the file as it is, at the same time or  *)
(* one at a time, and each adds books.                                     *)
(***************************************************************************)
RaceTitles == {"T", "U"}

\* LibrarySystem.__init__ on the file f.
Construct(f) ==
    [data |-> load_data(f),
     next_book_id |-> get_next_id(load_data(f), "books"),
     next_member_id |-> get_next_id(load_data(f), "members"),
     ret |-> Ret("init", TRUE, "", 0)]

TwoInit ==
    /\ file = None
    /\ data = Construct(None).data
    /\ next_book_id = Construct(None).next_book_id
    /\ next_member_id = Construct(None).next_member_id
    /\ ret = Construct(None).ret
    /\ other = Construct(None)
    /\ clock = 0
    /\ test_book = None
    /\ test_member = None
    /\ pc = None

ConstructBoth ==
    /\ data' = Construct(file).data
    /\ next_book_id' = Construct(file).next_book_id
    /\ next_member_id' = Construct(file).next_member_id
    /\ ret' = Construct(file).ret
    /\ other' = Construct(file)
    /\ UNCHANGED <<file, clock, test_book, test_member, pc>>

\* LibrarySystem.add_book of the second object.
other_add_book(title, author, isbn, category, now) ==
    LET book == Book(other.next_book_id, title, author, isbn, category, now)
        dm1 == DM_add_book([data |-> other.data, file |-> file], book)
    IN  /\ other' = [data |-> dm1.data,
                     next_book_id |-> other.next_book_id + 1,
                     next_member_id |-> other.next_member_id,
                     ret |-> Ret("add_book", TRUE, "", book.book_id)]
        /\ file' = dm1.file
        /\ clock' = now
        /\ UNCHANGED <<data, next_book_id, next_member_id, ret>>
        /\ UNCHANGED <<test_book, test_member, pc>>

FirstAddBook ==
    /\ next_book_id <= SmallMaxBookId
    /\ \E title \in RaceTitles, author \in Authors, isbn \in Isbns,
          category \in Categories, now \in From(clock) :
          add_book(title, author, isbn, category, now)
    /\ UNCHANGED aside

SecondAddBook ==
    /\ other.next_book_id <= SmallMaxBookId
    /\ \E title \in RaceTitles, author \in Authors, isbn \in Isbns,
          category \in Categories, now \in From(clock) :
          other_add_book(title, author, isbn, category, now)

\* The second object is constructed again, on the file as it is; Restart is
\* the same for the first one.
ConstructSecond ==
    /\ other' = Construct(file)
    /\ UNCHANGED <<data, file, next_book_id, next_member_id, clock, ret>>
    /\ UNCHANGED <<test_book, test_member, pc>>

TwoNext ==
    \/ FirstAddBook
    \/ SecondAddBook
    \/ ConstructBoth
    \/ Restart
    \/ ConstructSecond

SpecTwo == TwoInit /\ [][TwoNext]_vars

(***************************************************************************)
(* Vocabulary of the properties.                                           *)
(***************************************************************************)
BookKeys == DOMAIN data.books
MemberKeys == DOMAIN data.members

\* The member and the book exist in the store.
Exists(member_id, book_id) ==
    /\ ToStr(member_id) \in MemberKeys
    /\ ToStr(book_id) \in BookKeys

StoredBook(book_id) == data.books[ToStr(book_id)]
StoredMember(member_id) == data.members[ToStr(member_id)]

\* The number of borrow records the stored member holds.
Holds(member_id) == Len(StoredMember(member_id).borrowed_books)

IsPrefix(s, t) == Len(s) <= Len(t) /\ SubSeq(t, 1, Len(s)) = s

\* The positions of seq whose record is not for book_id, and the n-th of them.
KeptPositions(seq, book_id) == {i \in 1..Len(seq) : seq[i].book_id # book_id}
NthOf(S, n) == CHOOSE i \in S : Cardinality({x \in S : x < i}) = n - 1

\* new is seq without its records for book_id, the others in their order.
IsWithout(new, seq, book_id) ==
    /\ Len(new) = Cardinality(KeptPositions(seq, book_id))
    /\ \A n \in 1..Len(new) : new[n] = seq[NthOf(KeptPositions(seq, book_id), n)]

\* Some step of the four reads of the clock a borrow_book makes.
BorrowStep(member_id, book_id) ==
    \E t1 \in From(clock) : \E t2 \in From(t1) :
      \E t3 \in From(t2) : \E t4 \in From(t3) :
        borrow_book(member_id, book_id, t1, t2, t3, t4)

ReturnStep(member_id, book_id) ==
    \E t1 \in From(clock) : \E t2 \in From(t1) :
        return_book(member_id, book_id, t1, t2)

(***************************************************************************)
(* C1.  In every reachable state, every stored book is unavailable if and  *)
(* only if its borrowed_by is not None.                                    *)
(***************************************************************************)
C1_AvailableIffNoBorrower ==
    \A k \in BookKeys :
        (data.books[k].is_available = FALSE) <=> (data.books[k].borrowed_by # None)

\* A book is out, another one was borrowed and came back.
C1_Witness ==
    /\ \E k \in BookKeys : ~data.books[k].is_available
    /\ \E i \in 1..Len(data.transactions) :
          /\ data.transactions[i].type = "return"
          /\ StoredBook(data.transactions[i].book_id).is_available
          /\ \E j \in 1..(i - 1) :
                /\ data.transactions[j].type = "borrow"
                /\ data.transactions[j].book_id = data.transactions[i].book_id

(***************************************************************************)
(* C2.  In every reachable state, every stored member holds at most 3      *)
(* borrow records.                                                         *)
(***************************************************************************)
C2_AtMostThree ==
    \A k \in MemberKeys :
        Len(data.members[k].borrowed_books) <= MaxBooksPerMember

\* A member holding 3 records has just been refused a further one.
C2_Witness ==
    /\ \E k \in MemberKeys : Len(data.members[k].borrowed_books) = MaxBooksPerMember
    /\ ret = Ret("borrow_book", FALSE, LimitReached, 0)

(***************************************************************************)
(* C3.  In every reachable state, the book_id values of each member's      *)
(* borrow records are pairwise distinct.  (The code breaks this: a return  *)
(* by a member who does not hold the book frees the book while the holder  *)
(* keeps its record, and the holder can then borrow the book again.)       *)
(***************************************************************************)
C3_DistinctBookIds ==
    \A k \in MemberKeys :
        \A i, j \in 1..Len(data.members[k].borrowed_books) :
            i # j => data.members[k].borrowed_books[i].book_id
                        # data.members[k].borrowed_books[j].book_id

(***************************************************************************)
(* C4.  borrow_book(m, b) for a stored member m and a stored book b that   *)
(* is not available returns (False, "Book is not available") and leaves    *)
(* the book record, the member record and the transaction log as they      *)
(* were, whoever holds the book and however many books m holds.            *)
(***************************************************************************)
C4_UnavailableStep(member_id, book_id) ==
    (/\ Exists(member_id, book_id)
     /\ ~StoredBook(book_id).is_available
     /\ BorrowStep(member_id, book_id))
    => /\ ret' = Ret("borrow_book", FALSE, Unavailable, 0)
       /\ data'.books[ToStr(book_id)] = data.books[ToStr(book_id)]
       /\ data'.members[ToStr(member_id)] = data.members[ToStr(member_id)]
       /\ data'.transactions = data.transactions

C4_UnavailableRefused ==
    [][\A member_id \in MemberIdArgs, book_id \in BookIdArgs :
          C4_UnavailableStep(member_id, book_id)]_vars

\* The refusal has been returned while one member holds 3 records and
\* another holds none: the book is lent, the store has the log of the loans.
C4_Witness ==
    /\ ret = Ret("borrow_book", FALSE, Unavailable, 0)
    /\ \E k \in MemberKeys : Len(data.members[k].borrowed_books) = MaxBooksPerMember
    /\ \E k \in MemberKeys : Len(data.members[k].borrowed_books) = 0

(***************************************************************************)
(* C5.  As claimed: a member holding 3 borrow records gets LimitReached    *)
(* from borrow_book for every book id passed.  (Refuted: the availability  *)
(* and the existence of the book are tested first.)                        *)
(***************************************************************************)
C5_LimitForEveryBook ==
    [][\A member_id \in MemberIdArgs, book_id \in BookIdArgs :
          (/\ ToStr(member_id) \in MemberKeys
           /\ Holds(member_id) = MaxBooksPerMember
           /\ BorrowStep(member_id, book_id))
          => ret' = Ret("borrow_book", FALSE, LimitReached, 0)]_vars

(***************************************************************************)
(* C5, amended.  A member holding 3 borrow records is refused by every     *)
(* further borrow_book, which leaves the store as it was: with             *)
(* LimitReached when the book is stored and available, with Unavailable    *)
(* when it is stored and not available, with NotFound when it is not       *)
(* stored.                                                                 *)
(***************************************************************************)
C5_AtLimitStep(member_id, book_id) ==
    (/\ ToStr(member_id) \in MemberKeys
     /\ Holds(member_id) = MaxBooksPerMember
     /\ BorrowStep(member_id, book_id))
    => /\ data' = data
       /\ ret' = Ret("borrow_book", FALSE,
                     IF ToStr(book_id) \notin BookKeys THEN NotFound
                     ELSE IF ~StoredBook(book_id).is_available THEN Unavailable
                     ELSE LimitReached, 0)

C5_AtLimitRefused ==
    [][\A member_id \in MemberIdArgs, book_id \in BookIdArgs :
          C5_AtLimitStep(member_id, book_id)]_vars

\* LimitReached has been returned: a member holding 3 asked for a book that
\* is stored and available.
C5_Witness ==
    /\ ret = Ret("borrow_book", FALSE, LimitReached, 0)
    /\ \E k \in BookKeys : data.books[k].is_available

(***************************************************************************)
(* C6.  borrow_book(m, b) for a stored member m holding fewer than 3       *)
(* records and a stored, available book b returns (True, success           *)
(* message); afterwards b is unavailable with borrowed_by = m, m's list    *)
(* is the list before with one record for b appended at the end, and the   *)
(* log is the log before with one borrow record for (m, b) appended.       *)
(***************************************************************************)
C6_BorrowStep(member_id, book_id) ==
    (/\ Exists(member_id, book_id)
     /\ StoredBook(book_id).is_available
     /\ Holds(member_id) < MaxBooksPerMember
     /\ BorrowStep(member_id, book_id))
    => LET list == StoredMember(member_id).borrowed_books
           list2 == data'.members[ToStr(member_id)].borrowed_books
           log == data.transactions
           log2 == data'.transactions
       IN  /\ ret' = Ret("borrow_book", TRUE, Borrowed, 0)
           /\ data'.books[ToStr(book_id)].is_available = FALSE
           /\ data'.books[ToStr(book_id)].borrowed_by = Some(member_id)
           /\ Len(list2) = Len(list) + 1
           /\ SubSeq(list2, 1, Len(list)) = list
           /\ list2[Len(list2)].book_id = book_id
           /\ Len(log2) = Len(log) + 1
           /\ SubSeq(log2, 1, Len(log)) = log
           /\ log2[Len(log2)].type = "borrow"
           /\ log2[Len(log2)].member_id = member_id
           /\ log2[Len(log2)].book_id = book_id

C6_BorrowSucceeds ==
    [][\A member_id \in MemberIdArgs, book_id \in BookIdArgs :
          C6_BorrowStep(member_id, book_id)]_vars

\* A borrow has succeeded for a member who already held a record: the new
\* record is the last of at least two.
C6_Witness ==
    /\ ret = Ret("borrow_book", TRUE, Borrowed, 0)
    /\ Len(data.transactions) >= 2
    /\ LET last == data.transactions[Len(data.transactions)]
       IN  /\ last.type = "borrow"
           /\ Holds(last.member_id) >= 2
           /\ StoredBook(last.book_id).borrowed_by = Some(last.member_id)

(***************************************************************************)
(* C7.  return_book(m, b) for a stored member m and a stored book b        *)
(* succeeds whether or not b is lent and whoever holds it; afterwards b    *)
(* is available with borrowed_by None, m's list is the list before         *)
(* without its records for b (the others in their order), and the log is   *)
(* the log before with one return record for (m, b) appended.              *)
(***************************************************************************)
C7_ReturnStep(member_id, book_id) ==
    (/\ Exists(member_id, book_id)
     /\ ReturnStep(member_id, book_id))
    => LET list == StoredMember(member_id).borrowed_books
           list2 == data'.members[ToStr(member_id)].borrowed_books
           log == data.transactions
           log2 == data'.transactions
       IN  /\ ret' = Ret("return_book", TRUE, Returned, 0)
           /\ data'.books[ToStr(book_id)].is_available = TRUE
           /\ data'.books[ToStr(book_id)].borrowed_by = None
           /\ \A i \in 1..Len(list2) : list2[i].book_id # book_id
           /\ IsWithout(list2, list, book_id)
           /\ Len(log2) = Len(log) + 1
           /\ SubSeq(log2, 1, Len(log)) = log
           /\ log2[Len(log2)].type = "return"
           /\ log2[Len(log2)].member_id = member_id
           /\ log2[Len(log2)].book_id = book_id

C7_ReturnSucceeds ==
    [][\A member_id \in MemberIdArgs, book_id \in BookIdArgs :
          C7_ReturnStep(member_id, book_id)]_vars

\* A return has succeeded for a member who was not the holder: the book is
\* back while another member still has its record; and the member who
\* returned keeps a record for another book.
C7_Witness ==
    /\ ret = Ret("return_book", TRUE, Returned, 0)
    /\ LET last == data.transactions[Len(data.transactions)]
       IN  /\ last.type = "return"
           /\ StoredBook(last.book_id).is_available
           /\ Holds(last.member_id) >= 1
           /\ \E k \in MemberKeys \ {ToStr(last.member_id)} :
                 \E i \in 1..Len(data.members[k].borrowed_books) :
                    data.members[k].borrowed_books[i].book_id = last.book_id

(***************************************************************************)
(* C8.  borrow_book and return_book called with a member id or a book id   *)
(* that is not in the store return (False, "Member or book not found")     *)
(* and leave the document and the file as they were; for borrow_book this  *)
(* outcome comes before Unavailable and LimitReached.                      *)
(***************************************************************************)
C8_NotFoundStep(member_id, book_id) ==
    ~Exists(member_id, book_id)
    => /\ BorrowStep(member_id, book_id)
          => /\ ret' = Ret("borrow_book", FALSE, NotFound, 0)
             /\ UNCHANGED <<data, file>>
       /\ ReturnStep(member_id, book_id)
          => /\ ret' = Ret("return_book", FALSE, NotFound, 0)
             /\ UNCHANGED <<data, file>>

C8_NotFoundRefused ==
    [][\A member_id \in MemberIdArgs, book_id \in BookIdArgs :
          C8_NotFoundStep(member_id, book_id)]_vars

\* NotFound has been returned by borrow_book while a stored book is lent and
\* a stored member is at the limit: the call named an id that is not stored,
\* whatever the other id was.
C8_Witness ==
    /\ ret = Ret("borrow_book", FALSE, NotFound, 0)
    /\ \E k \in BookKeys : ~data.books[k].is_available
    /\ \E k \in MemberKeys : Len(data.members[k].borrowed_books) = MaxBooksPerMember
    /\ \E m \in MemberIdArgs, b \in BookIdArgs : ~Exists(m, b)

(***************************************************************************)
(* C9.  The transaction log is append-only: every step leaves the log as   *)
(* a prefix of the new log; a successful borrow_book or return_book        *)
(* appends exactly one record, a refused one and every add_book and        *)
(* add_member append none.                                                 *)
(***************************************************************************)
C9_LogStep ==
    /\ IsPrefix(data.transactions, data'.transactions)
    /\ Len(data'.transactions) - Len(data.transactions) =
          IF ret'.op \in {"borrow_book", "return_book"} /\ ret'.ok THEN 1 ELSE 0

C9_LogAppendOnly == [][C9_LogStep]_vars

\* The log holds a borrow and a return, and the last call was refused.
C9_Witness ==
    /\ \E i, j \in 1..Len(data.transactions) :
          /\ i < j
          /\ data.transactions[i].type = "borrow"
          /\ data.transactions[j].type = "return"
    /\ ret.op \in {"borrow_book", "return_book"}
    /\ ~ret.ok

(***************************************************************************)
(* C10.  Ids are allocated as max(existing ids) + 1 at construction (1 on  *)
(* an empty store) and incremented by one per add: add_book (add_member)   *)
(* returns the record with the next id, stores it under that id as         *)
(* available (with no borrow record), the id being new to the store, and   *)
(* no step removes a stored book or member or stores another record's id   *)
(* under its key.                                                          *)
(***************************************************************************)
\* One more than the largest id among the records, 1 when there is none.
NextFree(records) ==
    IF DOMAIN records = {} THEN 1
    ELSE Max({records[k].id : k \in DOMAIN records}) + 1

\* After every step, a construction included, the counters are one more
\* than the largest stored ids.
C10_CountersInStep ==
    /\ next_book_id' = NextFree(data'.books)
    /\ next_member_id' = NextFree(data'.members)

C10_AddBookStep ==
    ret'.op = "add_book"
    => /\ ret'.id = next_book_id
       /\ next_book_id' = next_book_id + 1
       /\ ToStr(next_book_id) \notin BookKeys
       /\ DOMAIN data'.books = BookKeys \cup {ToStr(next_book_id)}
       /\ data'.books[ToStr(next_book_id)].id = next_book_id
       /\ data'.books[ToStr(next_book_id)].is_available = TRUE
       /\ \A k \in BookKeys : data'.books[k] = data.books[k]
       /\ data'.members = data.members

C10_AddMemberStep ==
    ret'.op = "add_member"
    => /\ ret'.id = next_member_id
       /\ next_member_id' = next_member_id + 1
       /\ ToStr(next_member_id) \notin MemberKeys
       /\ DOMAIN data'.members = MemberKeys \cup {ToStr(next_member_id)}
       /\ data'.members[ToStr(next_member_id)].id = next_member_id
       /\ data'.members[ToStr(next_member_id)].borrowed_books = <<>>
       /\ \A k \in MemberKeys : data'.members[k] = data.members[k]
       /\ data'.books = data.books

C10_GrowStep ==
    /\ BookKeys \subseteq DOMAIN data'.books
    /\ MemberKeys \subseteq DOMAIN data'.members
    /\ \A k \in BookKeys : data'.books[k].id = data.books[k].id
    /\ \A k \in MemberKeys : data'.members[k].id = data.members[k].id

C10_IdAllocation ==
    [][/\ C10_CountersInStep
       /\ C10_AddBookStep
       /\ C10_AddMemberStep
       /\ C10_GrowStep]_vars

\* The third book and the second member are stored, the last call was an
\* add, and books are lent.
C10_Witness ==
    /\ ret.op \in {"add_book", "add_member"}
    /\ ret.id >= 2
    /\ Cardinality(BookKeys) >= 3
    /\ Cardinality(MemberKeys) >= 2
    /\ \E k \in BookKeys : ~data.books[k].is_available

SameBookOtherwise(old, new) ==
    /\ new.book_id = old.book_id
    /\ new.title = old.title
    /\ new.author = old.author
    /\ new.isbn = old.isbn
    /\ new.category = old.category
    /\ new.added_date = old.added_date

C12_BorrowStep(member_id) ==
    BookBorrowCall(member_id)
    => /\ SameBookOtherwise(test_book, test_book')
       /\ test_book.is_available
          => /\ ret'.ok
             /\ test_book'.is_available = FALSE
             /\ test_book'.borrowed_by = Some(member_id)
       /\ ~test_book.is_available
          => /\ ~ret'.ok
             /\ test_book'.is_available = FALSE
             /\ test_book'.borrowed_by = test_book.borrowed_by

C12_ReturnStep ==
    BookReturnCall
    => /\ SameBookOtherwise(test_book, test_book')
       /\ test_book'.is_available = TRUE
       /\ test_book'.borrowed_by = None
       /\ Book_return_book(test_book') = test_book'

C12_BookStateMachine ==
    [][(\A member_id \in MemberIdArgs : C12_BorrowStep(member_id))
       /\ C12_ReturnStep]_vars

\* A borrow has just been refused on a book that another member holds.
C12_Witness ==
    /\ test_book # None
    /\ ret = Ret("Book.borrow", FALSE, "", 0)
    /\ ~test_book.is_available
    /\ test_book.borrowed_by = Some(2)

(***************************************************************************)
(* C13.  Member.borrow_book(book_id) on a member holding fewer than 3      *)
(* records returns true and appends one record, for book_id, to the list;  *)
(* on a member holding 3 it returns false and changes nothing; after the   *)
(* third record can_borrow is false.  Member.return_book(book_id) leaves   *)
(* the records whose book_id differs, in their order, and no other; when   *)
(* no record matches, the member is as it was.                             *)
(***************************************************************************)
C13_BorrowStep(book_id) ==
    (\E now1 \in From(clock) : \E now2 \in From(now1) :
        MemberBorrowCall(book_id, now1, now2))
    => LET old == test_member.borrowed_books
           new == test_member'.borrowed_books
       IN  /\ Len(old) < 3
              => /\ ret'.ok
                 /\ Len(new) = Len(old) + 1
                 /\ SubSeq(new, 1, Len(old)) = old
                 /\ new[Len(new)].book_id = book_id
                 /\ [test_member' EXCEPT !.borrowed_books = old] = test_member
                 /\ Len(new) = 3 => ~can_borrow(test_member')
           /\ Len(old) >= 3
              => /\ ~ret'.ok
                 /\ test_member' = test_member

C13_ReturnStep(book_id) ==
    MemberReturnCall(book_id)
    => LET old == test_member.borrowed_books
           new == test_member'.borrowed_books
       IN  /\ IsWithout(new, old, book_id)
           /\ [test_member' EXCEPT !.borrowed_books = old] = test_member
           /\ (\A i \in 1..Len(old) : old[i].book_id # book_id)
              => test_member' = test_member

C13_MemberMethods ==
    [][\A book_id \in BookIdArgs :
          C13_BorrowStep(book_id) /\ C13_ReturnStep(book_id)]_vars

\* A fourth borrow has just been refused on a member holding 3 records, two
\* of them for the same book.
C13_Witness ==
    /\ test_member # None
    /\ ret = Ret("Member.borrow_book", FALSE, "", 0)
    /\ Len(test_member.borrowed_books) = 3
    /\ \E i, j \in 1..3 :
          /\ i # j
          /\ test_member.borrowed_books[i].book_id
                = test_member.borrowed_books[j].book_id

(***************************************************************************)
(* C14.  borrow_book writes the file three times: the book record, the     *)
(* member record, the transaction.  When the process stops after the       *)
(* first write, the file holds book b unavailable with borrowed_by = m     *)
(* while the member records and the transaction log are what they were     *)
(* before the call: member m has no borrow record of this call and the     *)
(* log no borrow transaction of it.  The start on the file that follows    *)
(* loads exactly that.  From then on, book b unavailable with              *)
(* borrowed_by = m and no record for b in m's list stays so through every  *)
(* step that is not a successful return_book for b; a return_book for b,   *)
(* by any stored member, ends it: the book is available again.             *)
(***************************************************************************)
Persisted == load_data(file)

\* In the file, book b is lent to member m and m has no record for b.
Inconsistent(member_id, book_id) ==
    /\ ToStr(book_id) \in DOMAIN Persisted.books
    /\ ToStr(member_id) \in DOMAIN Persisted.members
    /\ ~Persisted.books[ToStr(book_id)].is_available
    /\ Persisted.books[ToStr(book_id)].borrowed_by = Some(member_id)
    /\ \A i \in 1..Len(Persisted.members[ToStr(member_id)].borrowed_books) :
          Persisted.members[ToStr(member_id)].borrowed_books[i].book_id # book_id

\* The borrow_book call for m and b is in progress.
Running(member_id, book_id) ==
    /\ pc # None
    /\ pc[1].member_id = member_id
    /\ pc[1].book_id = book_id

\* The file is inconsistent for m and b and no call is there to go on.
Stranded(member_id, book_id) ==
    Inconsistent(member_id, book_id) /\ ~Running(member_id, book_id)

\* Some step of a return_book for book_id that found its records.
ReturnedStep(book_id) ==
    \E member_id \in SmallMemberIdArgs :
        /\ pc = None
        /\ ReturnOutcome(DM, member_id, book_id) = Returned
        /\ \E t1 \in From(clock) : \E t2 \in From(t1) :
              return_book(member_id, book_id, t1, t2)

\* The claim as it is worded: no later step repairs the stranded state.
C14_NeverRepaired ==
    [][\A member_id \in SmallMemberIdArgs, book_id \in SmallBookIdArgs :
          Stranded(member_id, book_id) => Stranded(member_id, book_id)']_vars

C14_BookWriteStep(member_id, book_id) ==
    (/\ BorrowOutcome(DM, member_id, book_id) = Borrowed
     /\ \E t1 \in From(clock) : StartBorrow(member_id, book_id, t1))
    => /\ Running(member_id, book_id)'
       /\ DOMAIN Persisted'.books = DOMAIN Persisted.books
       /\ \A k \in DOMAIN Persisted.books :
             Persisted'.books[k] =
                IF k = ToStr(book_id)
                THEN [Persisted.books[k] EXCEPT !.is_available = FALSE,
                                                !.borrowed_by = Some(member_id)]
                ELSE Persisted.books[k]
       /\ Persisted'.members = Persisted.members
       /\ Persisted'.transactions = Persisted.transactions

C14_StopStep ==
    (pc # None /\ Restart)
    => /\ file' = file
       /\ data' = Persisted
       /\ pc' = None

C14_StaysStep(member_id, book_id) ==
    (Stranded(member_id, book_id) /\ ~ReturnedStep(book_id))
    => Stranded(member_id, book_id)'

C14_RepairStep(member_id, book_id) ==
    (Stranded(member_id, book_id) /\ ReturnedStep(book_id))
    => /\ ~Inconsistent(member_id, book_id)'
       /\ Persisted'.books[ToStr(book_id)].is_available
       /\ Persisted'.books[ToStr(book_id)].borrowed_by = None

C14_NotAtomic ==
    [][/\ C14_StopStep
       /\ \A member_id \in SmallMemberIdArgs, book_id \in SmallBookIdArgs :
             /\ C14_BookWriteStep(member_id, book_id)
             /\ C14_StaysStep(member_id, book_id)
             /\ C14_RepairStep(member_id, book_id)]_vars

\* After a stop between the first and the second write of the first
\* borrow_book, another borrow of the book has been refused: the book is
\* lent to member 1, who holds nothing, and the log is empty.
C14_Witness ==
    /\ pc = None
    /\ Stranded(1, 1)
    /\ Persisted.transactions = <<>>
    /\ data = Persisted
    /\ ret = Ret("borrow_book", FALSE, Unavailable, 0)

(***************************************************************************)
(* C15.  Two LibrarySystem objects constructed on the same file have the   *)
(* same counters, the next free id of the file.  An add_book on either     *)
(* gives the book that object's counter as its id, whatever the file       *)
(* holds by then, leaves the other object as it was, and writes the file   *)
(* from that object's document alone: the file then holds that document    *)
(* and nothing else.  So one add_book on each gives one id to two books,   *)
(* and the file keeps the book of the later call only.                     *)
(***************************************************************************)
FirstAddStep(title) ==
    \E author \in Authors, isbn \in Isbns, category \in Categories,
       now \in From(clock) :
        add_book(title, author, isbn, category, now) /\ UNCHANGED aside

SecondAddStep(title) ==
    \E author \in Authors, isbn \in Isbns, category \in Categories,
       now \in From(clock) :
        other_add_book(title, author, isbn, category, now)

C15_ConstructStep ==
    ConstructBoth
    => /\ data' = other'.data
       /\ next_book_id' = other'.next_book_id
       /\ next_book_id' = NextFree(Persisted.books)

C15_FirstStep(title) ==
    FirstAddStep(title)
    => /\ ret'.id = next_book_id
       /\ next_book_id' = next_book_id + 1
       /\ other' = other
       /\ Persisted' = data'
       /\ DOMAIN Persisted'.books = DOMAIN data.books \cup {ToStr(next_book_id)}
       /\ Persisted'.books[ToStr(next_book_id)].title = title

C15_SecondStep(title) ==
    SecondAddStep(title)
    => /\ other'.ret.id = other.next_book_id
       /\ other'.next_book_id = other.next_book_id + 1
       /\ <<data, next_book_id, ret>> = <<data, next_book_id, ret>>'
       /\ Persisted' = other'.data
       /\ DOMAIN Persisted'.books
             = DOMAIN other.data.books \cup {ToStr(other.next_book_id)}
       /\ Persisted'.books[ToStr(other.next_book_id)].title = title

C15_LastWriteWins ==
    [][/\ C15_ConstructStep
       /\ \A title \in RaceTitles :
             C15_FirstStep(title) /\ C15_SecondStep(title)]_vars

\* Each object has added one book since both were constructed on a file
\* holding one book: both books got id 2, they differ, and the file holds
\* the book of the second object.
C15_Witness ==
    /\ other # None
    /\ ret = Ret("add_book", TRUE, "", 2)
    /\ other.ret = Ret("add_book", TRUE, "", 2)
    /\ next_book_id = 3
    /\ other.next_book_id = 3
    /\ data.books["1"] = other.data.books["1"]
    /\ data.books["2"] # other.data.books["2"]
    /\ Persisted.books["2"] = other.data.books["2"]
    /\ Persisted.books["2"] # data.books["2"]

(***************************************************************************)
(* C16.  Under a clock that may advance between two reads, every borrow    *)
(* record in the store has due_date equal to its own borrowed_date plus    *)
(* 14 days.  (The code breaks this: due_date is 14 days after a second     *)
(* read of the clock.)                                                     *)
(***************************************************************************)
C16_DueIsBorrowedPlus14 ==
    \A k \in MemberKeys :
        \A i \in 1..Len(data.members[k].borrowed_books) :
            data.members[k].borrowed_books[i].due_date
                = data.members[k].borrowed_books[i].borrowed_date + LoanDays

(***************************************************************************)
(* C17.  In every state reached by complete calls, a book that is          *)
(* unavailable with borrowed_by = m has its borrower m in the store, and   *)
(* m holds a borrow record for the book.                                   *)
(***************************************************************************)
HasRecord(member_key, book_id) ==
    \E i \in 1..Len(data.members[member_key].borrowed_books) :
        data.members[member_key].borrowed_books[i].book_id = book_id

C17_BorrowerHoldsRecord ==
    \A k \in BookKeys :
        ~data.books[k].is_available /\ data.books[k].borrowed_by # None
        => /\ ToStr(data.books[k].borrowed_by[1]) \in MemberKeys
           /\ HasRecord(ToStr(data.books[k].borrowed_by[1]), data.books[k].id)

\* A book is lent to a member after it was returned by a member who did not
\* hold it: the log has a borrow, a return by another member and a borrow
\* of the same book.
C17_Witness ==
    \E h, i, j \in 1..Len(data.transactions) :
        /\ h < i /\ i < j
        /\ data.transactions[h].type = "borrow"
        /\ data.transactions[i].type = "return"
        /\ data.transactions[j].type = "borrow"
        /\ data.transactions[i].book_id = data.transactions[h].book_id
        /\ data.transactions[j].book_id = data.transactions[h].book_id
        /\ data.transactions[i].member_id # data.transactions[h].member_id
        /\ ~StoredBook(data.transactions[h].book_id).is_available

(***************************************************************************)
(* C18.  In every state reached by complete calls, a book id is in the     *)
(* borrow records of at most one member, and every borrow record a member  *)
(* m holds is for a book that is unavailable with borrowed_by = m.  (The   *)
(* code breaks this: return_book by a member who does not hold the book    *)
(* frees the book and leaves the holder's record.)                         *)
(***************************************************************************)
C18_RecordsMatchBooks ==
    /\ \A k1, k2 \in MemberKeys :
          \A b \in BookIdArgs :
             HasRecord(k1, b) /\ HasRecord(k2, b) => k1 = k2
    /\ \A k \in MemberKeys :
          \A i \in 1..Len(data.members[k].borrowed_books) :
             LET b == data.members[k].borrowed_books[i].book_id
             IN  /\ ToStr(b) \in BookKeys
                 /\ ~StoredBook(b).is_available
                 /\ StoredBook(b).borrowed_by = Some(data.members[k].id)

(***************************************************************************)
(* C19.  A borrow_book(m, b) or return_book(m, b) call on a stored member  *)
(* and a stored book changes, of the books and the members, only book b's  *)
(* is_available and borrowed_by and member m's borrowed_books and          *)
(* can_borrow_more: the other fields of b, the id, name, email and         *)
(* created_at of m, and every other book and member are as they were.      *)
(* (The code breaks this: the member record is written from a Member       *)
(* object made during the call, so created_at becomes the instant of the   *)
(* call.)                                                                  *)
(***************************************************************************)
TickBorrowStep(member_id, book_id) ==
    \E t1 \in Ticks(clock) : \E t2 \in Ticks(t1) :
      \E t3 \in Ticks(t2) : \E t4 \in Ticks(t3) :
        borrow_book(member_id, book_id, t1, t2, t3, t4)

TickReturnStep(member_id, book_id) ==
    \E t1 \in Ticks(clock) : \E t2 \in Ticks(t1) :
        return_book(member_id, book_id, t1, t2)

C19_FrameStep(member_id, book_id) ==
    (/\ Exists(member_id, book_id)
     /\ TickBorrowStep(member_id, book_id) \/ TickReturnStep(member_id, book_id))
    => LET kb == ToStr(book_id)
           km == ToStr(member_id)
       IN  /\ DOMAIN data'.books = BookKeys
           /\ DOMAIN data'.members = MemberKeys
           /\ \A k \in BookKeys \ {kb} : data'.books[k] = data.books[k]
           /\ \A k \in MemberKeys \ {km} : data'.members[k] = data.members[k]
           /\ [data'.books[kb] EXCEPT
                  !.is_available = data.books[kb].is_available,
                  !.borrowed_by = data.books[kb].borrowed_by] = data.books[kb]
           /\ data'.members[km].id = data.members[km].id
           /\ data'.members[km].name = data.members[km].name
           /\ data'.members[km].email = data.members[km].email
           /\ data'.members[km].created_at = data.members[km].created_at

C19_Frame ==
    [][\A member_id \in SmallMemberIdArgs, book_id \in SmallBookIdArgs :
          C19_FrameStep(member_id, book_id)]_vars

(***************************************************************************)
(* C20.  After every complete call, refused ones included, the document    *)
(* the file holds is the document in memory (the empty document when       *)
(* there is no file), so that a construction on the file gives the         *)
(* document and the counters the running instance has.                     *)
(***************************************************************************)
C20_WriteThrough ==
    /\ load_data(file) = data
    /\ get_next_id(load_data(file), "books") = next_book_id
    /\ get_next_id(load_data(file), "members") = next_member_id

\* A refused call on a store with a lent book, a returned book and a log.
C20_Witness ==
    /\ file # None
    /\ ~ret.ok
    /\ \E k \in BookKeys : ~data.books[k].is_available
    /\ \E i \in 1..Len(data.transactions) : data.transactions[i].type = "return"

=============================================================================
